---- MODULE Spec2Model ----
(***************************************************************************)
(* A model of Breathline.py: the NFT record and its SHA-256 digest, the    *)
(* verifier cross_verify_nfts, the stubs update / think / act / breath and *)
(* the cycle loop of main.                                                 *)
(*                                                                         *)
(* Numbers are fixed point, in hundredths: update() rounds every channel   *)
(* to two decimals (round(x, 2)), so 24.0 is 2400.  The mean computed by   *)
(* think is kept as the exact quotient sum/len (a numerator and a          *)
(* denominator); the rounding of the float division is not modelled.       *)
(***************************************************************************)
EXTENDS Integers, Sequences, FiniteSets, TLC

VARIABLES
    nfts,        \* main: the list of NFT objects (the record store)
    verifier,    \* the callable main runs as cross_verify_nfts (real or a test stub)
    cycle,       \* main: the loop variable of `for cycle in range(...)`
    pc,          \* the position in main (or in the call of a single function)
    readings,    \* main: the dict returned by update()
    status,      \* main: the label returned by think()
    value,       \* main: the average returned by think()
    trace,       \* what happened so far, in order: one entry per stage call
    result,      \* what the last call of cross_verify_nfts returned and printed
    error,       \* the exception that ended the run, "none" when there is none
    exitStatus   \* the exit status of the process, -1 while it runs

vars == <<nfts, verifier, cycle, pc, readings, status, value, trace, result,
          error, exitStatus>>

(***************************************************************************)
(* Bounds of the model.                                                    *)
(***************************************************************************)
\* The longest list of records handed to cross_verify_nfts on its own.
MaxRecords == 3
\* update(): every channel is sampled at SensorSteps + 1 evenly spaced points
\* of its interval, both ends included.
SensorSteps == 2
\* think() on its own: the channel values lie within ThinkSpread quarter
\* units on either side of each edge of the normal band.
ThinkSpread == 1

(***************************************************************************)
(* NFT: the metadata, its JSON text and its digest.                        *)
(***************************************************************************)
\* A metadata dict is its items in insertion order: a sequence of <<key, value>>.
META1 == << <<"owner", "alice">>, <<"asset", "artwork">>, <<"serial", "A123">> >>
META2 == << <<"owner", "bob">>, <<"asset", "watch">>, <<"serial", "W456">> >>
META3 == << <<"owner", "carol">>, <<"asset", "car">>, <<"serial", "C789">> >>
\* META1 with its items inserted in another order: the same dict content.
META1_REORDERED == << <<"serial", "A123">>, <<"owner", "alice">>, <<"asset", "artwork">> >>
\* META1 with another serial number.
META1_TAMPERED == << <<"owner", "alice">>, <<"asset", "artwork">>, <<"serial", "A124">> >>

\* The keys of the metadata, in the order sort_keys=True puts them (code-point order).
KeyOrder == <<"asset", "owner", "serial">>

KeyRank(k) == CHOOSE i \in 1..Len(KeyOrder) : KeyOrder[i] = k

\* The items of a dict sorted by key, as json.dumps(..., sort_keys=True) emits them.
sorted_items(metadata) ==
    SortSeq(metadata, LAMBDA a, b : KeyRank(a[1]) < KeyRank(b[1]))

RECURSIVE join_items(_, _)
join_items(items, i) ==
    IF i > Len(items) THEN ""
    ELSE (IF i > 1 THEN ", " ELSE "")
         \o "\"" \o items[i][1] \o "\": \"" \o items[i][2] \o "\""
         \o join_items(items, i + 1)

\* json.dumps(metadata, sort_keys=True): the JSON text, with the default separators.
json_dumps(metadata) == "{" \o join_items(sorted_items(metadata), 1) \o "}"

\* hashlib.sha256(text.encode()).hexdigest() on the texts the model uses.
SHA256_TABLE ==
    { <<"{\"asset\": \"artwork\", \"owner\": \"alice\", \"serial\": \"A123\"}",
        "d0a76e9bc65451f3661d36b980b0f0935a885a3e1d71444e334d107f693c0694">>,
      <<"{\"asset\": \"watch\", \"owner\": \"bob\", \"serial\": \"W456\"}",
        "45d83e2998618d3408513caa189a02fb43edcd9ff3976e83b7ec8cdad0afecee">>,
      <<"{\"asset\": \"car\", \"owner\": \"carol\", \"serial\": \"C789\"}",
        "2e3f2851d3f5cecf926aac1cf1974272011278e54d041c4308382757a993b7b2">>,
      <<"{\"asset\": \"artwork\", \"owner\": \"alice\", \"serial\": \"A124\"}",
        "e724a480ba1c543b607d56244d6324d27e2c66de10bc5849fabb63521f110d3f">> }

sha256(text) == (CHOOSE p \in SHA256_TABLE : p[1] = text)[2]

\* NFT.__post_init__: the signature is the digest of the JSON text of the metadata.
signature_of(metadata) == sha256(json_dumps(metadata))

\* NFT(token_id=..., metadata=...): the dataclass after __post_init__.
NFT(token_id, metadata) ==
    [token_id |-> token_id, metadata |-> metadata,
     signature |-> signature_of(metadata)]

(***************************************************************************)
(* cross_verify_nfts.                                                      *)
(***************************************************************************)
\* What a call returns and prints: ok is the returned bool, out the [ERROR]
\* lines printed (the kind of the line and the token_id it names), examined
\* the number of records the loop has taken from the list.
Passed(n) == [ok |-> TRUE, out |-> <<>>, examined |-> n]

Failed(kind, token_id, n) ==
    [ok |-> FALSE, out |-> << <<kind, token_id>> >>, examined |-> n]

\* The loop `for nft in nfts` from the i-th record on.
RECURSIVE verify_from(_, _, _)
verify_from(list, i, seen_signatures) ==
    IF i > Len(list) THEN Passed(Len(list))
    ELSE LET nft == list[i]
             expected_sig == sha256(json_dumps(nft.metadata))
         IN  IF expected_sig # nft.signature
                 THEN Failed("Mismatch", nft.token_id, i)
             ELSE IF expected_sig \in seen_signatures
                 THEN Failed("Duplicate", nft.token_id, i)
             ELSE verify_from(list, i + 1, seen_signatures \cup {expected_sig})

\* A verifier that never looks for duplicates.
RECURSIVE verify_no_duplicate_check(_, _)
verify_no_duplicate_check(list, i) ==
    IF i > Len(list) THEN Passed(Len(list))
    ELSE IF sha256(json_dumps(list[i].metadata)) # list[i].signature
        THEN Failed("Mismatch", list[i].token_id, i)
    ELSE verify_no_duplicate_check(list, i + 1)

cross_verify_nfts_no_duplicate_check(list) == verify_no_duplicate_check(list, 1)

\* A verifier that looks for the duplicate before it compares the signature.
RECURSIVE verify_duplicate_first(_, _, _)
verify_duplicate_first(list, i, seen_signatures) ==
    IF i > Len(list) THEN Passed(Len(list))
    ELSE LET nft == list[i]
             expected_sig == sha256(json_dumps(nft.metadata))
         IN  IF expected_sig \in seen_signatures
                 THEN Failed("Duplicate", nft.token_id, i)
             ELSE IF expected_sig # nft.signature
                 THEN Failed("Mismatch", nft.token_id, i)
             ELSE verify_duplicate_first(list, i + 1,
                                         seen_signatures \cup {expected_sig})

cross_verify_nfts_duplicate_first(list) == verify_duplicate_first(list, 1, {})

\* A verifier whose Duplicate line names the record seen first.
RECURSIVE verify_names_first(_, _, _)
verify_names_first(list, i, seen_signatures) ==
    IF i > Len(list) THEN Passed(Len(list))
    ELSE LET nft == list[i]
             expected_sig == sha256(json_dumps(nft.metadata))
         IN  IF expected_sig # nft.signature
                 THEN Failed("Mismatch", nft.token_id, i)
             ELSE IF expected_sig \in seen_signatures
                 THEN Failed("Duplicate",
                             list[CHOOSE j \in 1..(i - 1) :
                                      list[j].signature = expected_sig].token_id, i)
             ELSE verify_names_first(list, i + 1, seen_signatures \cup {expected_sig})

cross_verify_nfts_names_first(list) == verify_names_first(list, 1, {})

cross_verify_nfts(list) == verify_from(list, 1, {})

(***************************************************************************)
(* The call of cross_verify_nfts on its own, on any list of records.       *)
(***************************************************************************)
\* The metadata and the signatures the records of such a list carry.  A
\* signature is the one __post_init__ set or one assigned afterwards (the
\* dataclass is not frozen).
MetaPool == {META1, META1_REORDERED, META2}

SigPool == {signature_of(META1), signature_of(META2), signature_of(META1_TAMPERED)}

RecordAt(i) ==
    { [token_id |-> "nft" \o ToString(i), metadata |-> m, signature |-> s] :
        m \in MetaPool, s \in SigPool }

RecordLists ==
    UNION { { list \in [1..n -> UNION {RecordAt(i) : i \in 1..n}] :
                \A i \in 1..n : list[i] \in RecordAt(i) } : n \in 0..MaxRecords }

NoReadings == [x \in {} |-> 0]

NoValue == [num |-> 0, den |-> 1]

RealVerifier == [kind |-> "cross_verify_nfts", plan |-> <<>>]

InitVerify ==
    /\ nfts \in RecordLists
    /\ verifier = RealVerifier
    /\ cycle = 0
    /\ pc = "call_verify"
    /\ readings = NoReadings
    /\ status = "none"
    /\ value = NoValue
    /\ trace = <<>>
    /\ result = Passed(0)
    /\ error = "none"
    /\ exitStatus = -1

CallVerify ==
    /\ pc = "call_verify"
    /\ result' = cross_verify_nfts(nfts)
    /\ pc' = "returned"
    /\ UNCHANGED <<nfts, verifier, cycle, readings, status, value, trace, error,
                   exitStatus>>

NextVerify == CallVerify

SpecVerify == InitVerify /\ [][NextVerify]_vars

(***************************************************************************)
(* update, think, act.                                                     *)
(***************************************************************************)
\* The intervals random.uniform draws from, in hundredths.
TEMPERATURE_LOW == 2000
TEMPERATURE_HIGH == 3000
HUMIDITY_LOW == 3000
HUMIDITY_HIGH == 7000
PRESSURE_LOW == 99000
PRESSURE_HIGH == 102000
\* The band of think: 24.0 <= avg <= 26.0, in hundredths.
NORMAL_LOW == 2400
NORMAL_HIGH == 2600

\* round(random.uniform(low, high), 2): a multiple of 0.01 within [low, high];
\* the model draws the evenly spaced ones.
Points(low, high) ==
    { low + (k * (high - low)) \div SensorSteps : k \in 0..SensorSteps }

\* update(): the dicts it can return.
UpdateReadings ==
    [temperature : Points(TEMPERATURE_LOW, TEMPERATURE_HIGH),
     humidity : Points(HUMIDITY_LOW, HUMIDITY_HIGH),
     pressure : Points(PRESSURE_LOW, PRESSURE_HIGH)]

\* sum(readings.values()), over the channels in keys.
RECURSIVE sum_values(_, _)
sum_values(r, keys) ==
    IF keys = {} THEN 0
    ELSE LET k == CHOOSE x \in keys : TRUE
         IN  r[k] + sum_values(r, keys \ {k})

\* low <= num/den <= high, for den > 0.
InBand(q, low, high) == low * q.den <= q.num /\ q.num <= high * q.den

\* think whose band leaves out its two edges.
think_strict_band(r) ==
    LET avg == [num |-> sum_values(r, DOMAIN r), den |-> Cardinality(DOMAIN r)]
    IN  [error |-> "none",
         status |-> IF NORMAL_LOW * avg.den < avg.num /\ avg.num < NORMAL_HIGH * avg.den
                    THEN "normal" ELSE "anomaly",
         avg |-> avg]

\* think that looks at the temperature alone.
think_temperature_only(r) ==
    LET avg == [num |-> r.temperature, den |-> 1]
    IN  [error |-> "none",
         status |-> IF InBand(avg, NORMAL_LOW, NORMAL_HIGH) THEN "normal" ELSE "anomaly",
         avg |-> avg]

\* think(readings): (status, avg), or the ZeroDivisionError of an empty dict.
think(r) ==
    IF Cardinality(DOMAIN r) = 0
    THEN [error |-> "ZeroDivisionError", status |-> "none", avg |-> NoValue]
    ELSE LET avg == [num |-> sum_values(r, DOMAIN r), den |-> Cardinality(DOMAIN r)]
         IN  [error |-> "none",
              status |-> IF InBand(avg, NORMAL_LOW, NORMAL_HIGH)
                         THEN "normal" ELSE "anomaly",
              avg |-> avg]

\* act(status, value): the message it prints.
act(st, v) == IF st = "normal" THEN "nominal" ELSE "warning"

(***************************************************************************)
(* The call of think on its own, on any dict of readings.                  *)
(***************************************************************************)
ChannelNames == {"temperature", "humidity", "pressure"}

\* Channel values around the two edges of the band, in steps of 0.25 (values
\* and sums that binary floating point holds exactly).
ThinkValues ==
    UNION { { NORMAL_LOW - 25 * k, NORMAL_LOW + 25 * k,
              NORMAL_HIGH - 25 * k, NORMAL_HIGH + 25 * k } : k \in 0..ThinkSpread }

ThinkInputs == UNION { [D -> ThinkValues] : D \in SUBSET ChannelNames }

InitThink ==
    /\ nfts = <<>>
    /\ verifier = RealVerifier
    /\ cycle = 0
    /\ pc = "call_think"
    /\ readings \in ThinkInputs
    /\ status = "none"
    /\ value = NoValue
    /\ trace = <<>>
    /\ result = Passed(0)
    /\ error = "none"
    /\ exitStatus = -1

CallThink ==
    /\ pc = "call_think"
    /\ LET t == think(readings)
       IN  /\ status' = t.status
           /\ value' = t.avg
           /\ error' = t.error
    /\ pc' = "returned"
    /\ UNCHANGED <<nfts, verifier, cycle, readings, trace, result, exitStatus>>

NextThink == CallThink

SpecThink == InitThink /\ [][NextThink]_vars

(***************************************************************************)
(* main.                                                                   *)
(***************************************************************************)
MAX_CYCLES == 5

\* range(1, MAX_CYCLES + 1): its stop value.
RangeStop == MAX_CYCLES + 1

\* The list main builds, with its third record a copy of the first.
MainStore_third_copies_first ==
    << NFT("nft1", META1), NFT("nft2", META2), NFT("nft3", META1_REORDERED) >>

\* The list main builds.
MainStore ==
    << NFT("nft1", META1), NFT("nft2", META2), NFT("nft3", META3) >>

\* One entry of the trace: the stage called, the cycle, what it returned (ok)
\* and what it printed (out).
Entry(stage, c, ok, out) == [stage |-> stage, cycle |-> c, ok |-> ok, out |-> out]

\* A stand-in for cross_verify_nfts that returns plan[cycle] in each cycle and
\* prints nothing.
StubVerifiers ==
    { [kind |-> "stub", plan |-> p] : p \in [1..MAX_CYCLES -> BOOLEAN] }

\* What the call in `if not cross_verify_nfts(nfts)` returns in this cycle.
RunVerifier ==
    IF verifier.kind = "cross_verify_nfts"
    THEN cross_verify_nfts(nfts)
    ELSE [ok |-> verifier.plan[cycle], out |-> <<>>, examined |-> 0]

\* The exit status of `python breath_line_model.py`: 0 when main returns, 1
\* when an exception leaves it.
ProcessExit(err) == IF err = "none" THEN 0 ELSE 1

Init ==
    /\ nfts = MainStore
    /\ verifier = RealVerifier
    /\ cycle = 0
    /\ pc = "for"
    /\ readings = NoReadings
    /\ status = "none"
    /\ value = NoValue
    /\ trace = <<>>
    /\ result = Passed(0)
    /\ error = "none"
    /\ exitStatus = -1

\* main with the name cross_verify_nfts bound to the function or to a stub.
InitStub ==
    /\ nfts = MainStore
    /\ verifier \in {RealVerifier} \cup StubVerifiers
    /\ cycle = 0
    /\ pc = "for"
    /\ readings = NoReadings
    /\ status = "none"
    /\ value = NoValue
    /\ trace = <<>>
    /\ result = Passed(0)
    /\ error = "none"
    /\ exitStatus = -1

\* The loop header written range(1, MAX_CYCLES).
For_one_cycle_short ==
    /\ pc = "for"
    /\ IF cycle + 1 < MAX_CYCLES
       THEN cycle' = cycle + 1 /\ pc' = "verify"
       ELSE cycle' = cycle /\ pc' = "leave"
    /\ UNCHANGED <<nfts, verifier, readings, status, value, trace, result, error,
                   exitStatus>>

\* for cycle in range(1, MAX_CYCLES + 1): the next value, or the end of the loop.
For ==
    /\ pc = "for"
    /\ IF cycle + 1 < RangeStop
       THEN cycle' = cycle + 1 /\ pc' = "verify"
       ELSE cycle' = cycle /\ pc' = "leave"
    /\ UNCHANGED <<nfts, verifier, readings, status, value, trace, result, error,
                   exitStatus>>

\* The check with `continue` in the place of `break`.
Verify_continue ==
    /\ pc = "verify"
    /\ LET r == RunVerifier
       IN  /\ result' = r
           /\ IF r.ok
              THEN /\ trace' = Append(trace, Entry("verify", cycle, TRUE, r.out))
                   /\ pc' = "update"
              ELSE /\ trace' = trace \o << Entry("verify", cycle, FALSE, r.out),
                                          Entry("fatal", cycle, TRUE, <<>>) >>
                   /\ pc' = "for"
    /\ UNCHANGED <<nfts, verifier, cycle, readings, status, value, error, exitStatus>>

\* The check with `raise RuntimeError` in the place of `break`.
Verify_raise ==
    /\ pc = "verify"
    /\ LET r == RunVerifier
       IN  /\ result' = r
           /\ IF r.ok
              THEN /\ trace' = Append(trace, Entry("verify", cycle, TRUE, r.out))
                   /\ pc' = "update"
                   /\ error' = error
              ELSE /\ trace' = trace \o << Entry("verify", cycle, FALSE, r.out),
                                          Entry("fatal", cycle, TRUE, <<>>) >>
                   /\ pc' = "leave"
                   /\ error' = "RuntimeError"
    /\ UNCHANGED <<nfts, verifier, cycle, readings, status, value, exitStatus>>

\* The check that takes the records off the list as it goes.
Verify_consumes_list ==
    /\ pc = "verify"
    /\ LET r == RunVerifier
       IN  /\ result' = r
           /\ trace' = Append(trace, Entry("verify", cycle, r.ok, r.out))
           /\ pc' = IF r.ok THEN "update" ELSE "leave"
    /\ nfts' = Tail(nfts)
    /\ UNCHANGED <<verifier, cycle, readings, status, value, error, exitStatus>>

\* if not cross_verify_nfts(nfts): print the [fatal] line and break.
Verify ==
    /\ pc = "verify"
    /\ LET r == RunVerifier
       IN  /\ result' = r
           /\ IF r.ok
              THEN /\ trace' = Append(trace, Entry("verify", cycle, TRUE, r.out))
                   /\ pc' = "update"
              ELSE /\ trace' = trace \o << Entry("verify", cycle, FALSE, r.out),
                                          Entry("fatal", cycle, TRUE, <<>>) >>
                   /\ pc' = "leave"
    /\ UNCHANGED <<nfts, verifier, cycle, readings, status, value, error, exitStatus>>

\* readings = update()
Update ==
    /\ pc = "update"
    /\ readings' \in UpdateReadings
    /\ trace' = Append(trace, Entry("update", cycle, TRUE, <<>>))
    /\ pc' = "think"
    /\ UNCHANGED <<nfts, verifier, cycle, status, value, result, error, exitStatus>>

\* status, value = think(readings); a ZeroDivisionError leaves main.
Think ==
    /\ pc = "think"
    /\ LET t == think(readings)
       IN  /\ error' = t.error
           /\ IF t.error = "none"
              THEN /\ status' = t.status
                   /\ value' = t.avg
                   /\ trace' = Append(trace, Entry("think", cycle, TRUE, <<t.status>>))
                   /\ pc' = "act"
              ELSE /\ UNCHANGED <<status, value>>
                   /\ trace' = Append(trace, Entry("think", cycle, FALSE, <<>>))
                   /\ pc' = "leave"
    /\ UNCHANGED <<nfts, verifier, cycle, readings, result, exitStatus>>

\* act(status, value)
Act ==
    /\ pc = "act"
    /\ trace' = Append(trace, Entry("act", cycle, TRUE, <<act(status, value)>>))
    /\ pc' = "breath"
    /\ UNCHANGED <<nfts, verifier, cycle, readings, status, value, result, error,
                   exitStatus>>

\* breath(cycle): the heartbeat line carries the cycle number.
Breath ==
    /\ pc = "breath"
    /\ trace' = Append(trace, Entry("breath", cycle, TRUE, <<cycle>>))
    /\ pc' = "sleep"
    /\ UNCHANGED <<nfts, verifier, cycle, readings, status, value, result, error,
                   exitStatus>>

\* time.sleep(0.5), the end of the loop body.
Sleep ==
    /\ pc = "sleep"
    /\ trace' = Append(trace, Entry("sleep", cycle, TRUE, <<>>))
    /\ pc' = "for"
    /\ UNCHANGED <<nfts, verifier, cycle, readings, status, value, result, error,
                   exitStatus>>

\* main is left and the interpreter exits.
Exit ==
    /\ pc = "leave"
    /\ exitStatus' = ProcessExit(error)
    /\ pc' = "exited"
    /\ UNCHANGED <<nfts, verifier, cycle, readings, status, value, trace, result,
                   error>>

Next ==
    \/ For
    \/ Verify
    \/ Update
    \/ Think
    \/ Act
    \/ Breath
    \/ Sleep
    \/ Exit

Spec == Init /\ [][Next]_vars

SpecStub == InitStub /\ [][Next]_vars

(***************************************************************************)
(* Claims about cross_verify_nfts.                                         *)
(***************************************************************************)
\* The stored digest of a record equals the digest recomputed from its metadata.
SelfConsistent(nft) == nft.signature = sha256(json_dumps(nft.metadata))

\* Every record of the list is self-consistent and no two share a digest.
ValidList(list) ==
    /\ \A i \in 1..Len(list) : SelfConsistent(list[i])
    /\ \A i, j \in 1..Len(list) : i # j => list[i].signature # list[j].signature

\* The i-th record breaks a condition: its digest is not the recomputed one,
\* or it is the digest of an earlier record.
Violates(list, i) ==
    \/ ~SelfConsistent(list[i])
    \/ \E j \in 1..(i - 1) : list[j].signature = list[i].signature

FirstViolation(list) ==
    CHOOSE i \in 1..Len(list) :
        Violates(list, i) /\ \A j \in 1..(i - 1) : ~Violates(list, j)

KindOf(nft) == IF SelfConsistent(nft) THEN "Duplicate" ELSE "Mismatch"

\* The list with the signature of its k-th record set back to the recomputed one.
Repaired(list, k) ==
    [list EXCEPT ![k].signature = sha256(json_dumps(list[k].metadata))]

\* C1: cross_verify_nfts returns True if and only if every record's stored
\* digest equals the digest recomputed from its metadata and no two records
\* of the list have the same digest; otherwise it returns False.
C1_VerifyIffValid ==
    pc = "returned" => (result.ok <=> ValidList(nfts))

C1_Witness ==
    /\ pc = "returned"
    /\ result.ok
    /\ Len(nfts) >= 2

\* C2: when cross_verify_nfts fails, the one diagnostic printed has the kind
\* and the token_id of the first record, in list order, that breaks a
\* condition (Mismatch if its stored digest differs from the recomputed one,
\* otherwise Duplicate), and no record after it is taken from the list.  A
\* valid list with the stored digest of one record replaced yields Mismatch
\* naming that record.
C2_FirstViolationReported ==
    pc = "returned" =>
        /\ ~result.ok =>
              /\ \E i \in 1..Len(nfts) : Violates(nfts, i)
              /\ LET f == FirstViolation(nfts)
                 IN  /\ result.out = << <<KindOf(nfts[f]), nfts[f].token_id>> >>
                     /\ result.examined = f
        /\ \A k \in 1..Len(nfts) :
              (~SelfConsistent(nfts[k]) /\ ValidList(Repaired(nfts, k))) =>
                  /\ ~result.ok
                  /\ result.out = << <<"Mismatch", nfts[k].token_id>> >>

\* A failure at the second of three records, a Duplicate, with a third record
\* that is mismatched and never reached.
C2_Witness ==
    /\ pc = "returned"
    /\ Len(nfts) = 3
    /\ ~result.ok
    /\ result.examined = 2
    /\ result.out = << <<"Duplicate", nfts[2].token_id>> >>
    /\ ~SelfConsistent(nfts[3])

\* The j-th record repeats the metadata of the earlier i-th record, both are
\* self-consistent, and the records before the j-th form a valid list.
RepeatsAt(list, i, j) ==
    /\ i < j
    /\ json_dumps(list[i].metadata) = json_dumps(list[j].metadata)
    /\ SelfConsistent(list[j])
    /\ ValidList(SubSeq(list, 1, j - 1))

\* C3: when two records carry identical metadata and all earlier records are
\* valid, cross_verify_nfts accepts the first occurrence and fails with a
\* Duplicate that names the token_id of the second occurrence.
C3_DuplicateNamesSecond ==
    pc = "returned" =>
        \A i, j \in 1..Len(nfts) :
            RepeatsAt(nfts, i, j) =>
                /\ ~result.ok
                /\ result.out = << <<"Duplicate", nfts[j].token_id>> >>
                /\ result.examined = j

\* The second occurrence is not the record right after the first, and the
\* two dicts were filled in different orders.
C3_Witness ==
    /\ pc = "returned"
    /\ Len(nfts) = 3
    /\ RepeatsAt(nfts, 1, 3)
    /\ nfts[1].metadata # nfts[3].metadata
    /\ result.out = << <<"Duplicate", "nft3">> >>

(***************************************************************************)
(* Claims about main.                                                      *)
(***************************************************************************)
Stages == <<"update", "think", "act", "breath">>

IsStage(e) == \E k \in 1..Len(Stages) : Stages[k] = e.stage

\* The calls of the four stages so far, in order, each with its cycle.
StageCalls ==
    LET calls == SelectSeq(trace, IsStage)
    IN  [i \in 1..Len(calls) |-> <<calls[i].stage, calls[i].cycle>>]

\* Sensing, Decision, Action, Heartbeat, in that order, for cycles 1..n.
CyclesRun(n) ==
    [i \in 1..(Len(Stages) * n) |->
        <<Stages[((i - 1) % Len(Stages)) + 1], ((i - 1) \div Len(Stages)) + 1>>]

\* The tags of the heartbeats printed so far.
HeartbeatTags ==
    LET beats == SelectSeq(trace, LAMBDA e : e.stage = "breath")
    IN  [i \in 1..Len(beats) |-> beats[i].out[1]]

AlwaysSucceeds ==
    \/ verifier = RealVerifier
    \/ verifier.kind = "stub" /\ \A c \in 1..MAX_CYCLES : verifier.plan[c]

FirstFailsOn(k) ==
    /\ verifier.kind = "stub"
    /\ ~verifier.plan[k]
    /\ \A c \in 1..(k - 1) : verifier.plan[c]

\* C4: with a verifier that always succeeds, the run of MAX_CYCLES = 5 cycles
\* calls update, think, act and breath 5 times each, in that order within
\* each cycle, with the heartbeats tagged 1..5, and main returns normally;
\* with a verifier that first fails on cycle 3 the four stages are called
\* twice each (cycles 1 and 2) and never a third time.
C4_StageCallsPerRun ==
    pc = "exited" =>
        /\ AlwaysSucceeds =>
              /\ StageCalls = CyclesRun(5)
              /\ HeartbeatTags = <<1, 2, 3, 4, 5>>
              /\ error = "none"
        /\ FirstFailsOn(3) =>
              /\ StageCalls = CyclesRun(2)
              /\ HeartbeatTags = <<1, 2>>

\* The run that halts in cycle 3 although the stub would pass cycles 4 and 5.
C4_Witness ==
    /\ pc = "exited"
    /\ FirstFailsOn(3)
    /\ verifier.plan[4] /\ verifier.plan[5]
    /\ Len(StageCalls) = 8

IsFailedVerify(e) == e.stage = "verify" /\ ~e.ok

\* C5: once the verifier fails in a cycle, nothing but the [fatal] line of
\* that cycle follows: no update, think, act, breath or sleep, no further
\* call of the verifier, and main is left for good; a stage runs in cycle k
\* only if the verifier succeeded in every cycle 1..k.
C5_FailStop ==
    /\ \A i \in 1..Len(trace) :
          IsFailedVerify(trace[i]) =>
              /\ Len(trace) = i + 1
              /\ trace[i + 1].stage = "fatal"
              /\ pc \in {"leave", "exited"}
    /\ \A i \in 1..Len(trace) :
          trace[i].stage \notin {"verify", "fatal"} =>
              \A k \in 1..trace[i].cycle :
                  \E j \in 1..(i - 1) :
                      /\ trace[j].stage = "verify"
                      /\ trace[j].cycle = k
                      /\ trace[j].ok

\* The process has ended after a failure in cycle 2 of a stub that would have
\* passed cycle 3.
C5_Witness ==
    /\ pc = "exited"
    /\ FirstFailsOn(2)
    /\ verifier.plan[3]
    /\ IsFailedVerify(trace[Len(trace) - 1])
    /\ Len(StageCalls) = 4

\* C6: every record of the store satisfies signature = sha256(json(metadata))
\* in every state, and no step of main changes the store: not a token_id, a
\* metadata or a signature, nor the membership or the order of the list.
C6_StoreImmutable ==
    /\ [](\A i \in 1..Len(nfts) :
             nfts[i].signature = sha256(json_dumps(nfts[i].metadata)))
    /\ [][nfts' = nfts]_vars

\* All five cycles have run over the three records main built.
C6_Witness ==
    /\ pc = "exited"
    /\ Len(StageCalls) = 20
    /\ Len(nfts) = 3
    /\ nfts[3].token_id = "nft3"

\* C7: each time main runs cross_verify_nfts on the store it builds (nft1,
\* nft2, nft3), the call returns True and prints neither a Mismatch nor a
\* Duplicate line.
C7_MainStoreVerifies ==
    /\ \A i \in 1..Len(trace) :
          trace[i].stage = "verify" => trace[i].ok /\ trace[i].out = <<>>
    /\ pc \notin {"for", "verify"} => result = Passed(3)
    /\ \A i, j \in 1..Len(nfts) : i # j => nfts[i].metadata # nfts[j].metadata

\* The fifth call has returned.
C7_Witness ==
    /\ pc = "update"
    /\ cycle = 5
    /\ result.ok
    /\ result.examined = 3
    /\ Len(SelectSeq(trace, LAMBDA e : e.stage = "verify")) = 5

\* C8: the exit status is 0 whether the loop ran all its cycles or halted on
\* a failed verification: main returns normally on both paths.
C8_ExitAlwaysZero ==
    pc = "exited" => exitStatus = 0 /\ error = "none"

\* The process has ended after the verifier failed.
C8_Witness ==
    /\ pc = "exited"
    /\ exitStatus = 0
    /\ ~result.ok
    /\ trace[Len(trace)].stage = "fatal"

\* C10: in main, every dict update can return has a mean outside [24, 26], so
\* think returns `anomaly` in every cycle and act prints the warning line,
\* never the nominal one.
C10_AlwaysAnomaly ==
    /\ status \in {"none", "anomaly"}
    /\ \A i \in 1..Len(trace) :
          /\ trace[i].stage = "think" => trace[i].out = <<"anomaly">>
          /\ trace[i].stage = "act" => trace[i].out = <<"warning">>
    /\ pc = "think" =>
          LET total == readings.temperature + readings.humidity + readings.pressure
          IN  total < 3 * NORMAL_LOW \/ total > 3 * NORMAL_HIGH

\* act has printed the warning for the lowest readings update can return.
C10_Witness ==
    /\ pc = "breath"
    /\ readings = [temperature |-> TEMPERATURE_LOW, humidity |-> HUMIDITY_LOW,
                   pressure |-> PRESSURE_LOW]
    /\ trace[Len(trace)] = Entry("act", cycle, TRUE, <<"warning">>)

(***************************************************************************)
(* Claims about think.                                                     *)
(***************************************************************************)
\* C9: for a non-empty dict of readings think returns the arithmetic mean of
\* all its values and the status `normal` exactly when 24.0 <= mean <= 26.0,
\* both edges included, `anomaly` otherwise.
C9_ThinkMeanAndBand ==
    (pc = "returned" /\ DOMAIN readings # {}) =>
        LET n == Cardinality(DOMAIN readings)
            total == sum_values(readings, DOMAIN readings)
        IN  /\ error = "none"
            /\ value.den = n
            /\ value.num = total
            /\ status \in {"normal", "anomaly"}
            /\ status = "normal" <=> (2400 * n <= total /\ total <= 2600 * n)

\* Three unequal channels whose mean is exactly 24.0: `normal`.
C9_Witness ==
    /\ pc = "returned"
    /\ Cardinality(DOMAIN readings) = 3
    /\ readings.temperature < readings.humidity
    /\ readings.humidity < readings.pressure
    /\ value.num = 3 * 2400
    /\ status = "normal"

====
